---- MODULE Spec2Model ----
(***************************************************************************)
(* Model of the media transformation pipeline of UGCEDITOR-WEBAPP.         *)
(*                                                                         *)
(*   src/processor.py      process_video_pair and the steps it runs        *)
(*                         (apply_text_overlay, try_fast_copy_concat,      *)
(*                         reencode_concat, simple_video_concat) on top of *)
(*                         the process runner (_run_ffmpeg_concat and      *)
(*                         _run_ffmpeg_command)                            *)
(*                         and the matcher (scan_video_files, find_matches,*)
(*                         natural_sort_key, get_match_counts)             *)
(*   src/ugc_processor.py  process_ugc_video, concatenate_with_end_sting,  *)
(*                         transcribe_with_assemblyai                      *)
(*                                                                         *)
(* One behaviour of Spec is one call of process_video_pair or of           *)
(* process_ugc_video                                                       *)
(* together with its environment: the external tool process (which writes  *)
(* the output file and exits), and the caller, who may set the             *)
(* cancellation flag at any time.  A call is cut into steps at the points  *)
(* where the code waits for the external process.                          *)
(***************************************************************************)
EXTENDS Integers, Sequences, FiniteSets, TLC

VARIABLES
    job,        \* "pair": process_video_pair is called; "ugc": process_ugc_video;
                \* "match": find_matches
    args,       \* the arguments of the call that decide its control flow
    pc,         \* the step of the job that is running or about to run
    phase,      \* "call" | "polling" | "returned": position inside a runner step
    rr,         \* (success, error) the step's runner or helper returned; the
                \* counts get_match_counts returned
    cancelFlag, \* the caller's cancellation flag (read through cancel_check)
    proc,       \* the external tool process of the running step
    file,       \* the file system: what is at each path
    temps,      \* temporary directories and files that exist
    created,    \* temporary directories and files the call has created so far
    tierLog,    \* the tool invocations of the call so far, with their outcome
    loc,        \* locals of the job: success, used_fast_copy, error_msg of
                \* process_video_pair; duration, words, command of process_ugc_video
    probe,      \* locals of try_fast_copy_concat: dur1, dur2, out_dur, verdict
    result      \* the ProcessingResult / UGCProcessingResult returned; the list
                \* of VideoMatch find_matches returned

vars == <<job, args, pc, phase, rr, cancelFlag, proc, file, temps, created,
          tierLog, loc, probe, result>>

(***************************************************************************)
(* Bounds of the model                                                     *)
(***************************************************************************)
\* Probed input durations: the multiples of 2000 ms up to this many (0 is a
\* failed probe), 2 ms (to reach sums just above a multiple) and 50000 ms (a sum
\* whose 5% share exceeds the 2000 ms floor of the tolerance).
MaxDurUnits == 2

DurationValues == {k * 2000 : k \in 0..MaxDurUnits} \cup {2, 50000}

\* Probed durations of the fast-copy output for an expected sum e: 0 (the probe
\* failed), e, half of e, and both sides of each edge of the tolerance window
\* (the 2000 ms floor and the 5% share).
OutDurationsFor(e) ==
    {x \in {0, e, e \div 2,
            e - 2000, e - 2001, e + 2000, e + 2001,
            e - (e \div 20), e - (e \div 20) - 1,
            e + (e \div 20), e + (e \div 20) + 1} : x >= 0}

(***************************************************************************)
(* Values                                                                  *)
(***************************************************************************)
FileState == {"absent", "empty", "nonempty"}

PairPaths == {"output_flat", "output_nested", "output_a", "output_b"}
UgcPaths == {"output_path", "intermediate_video", "ass_file"}
Paths == PairPaths \cup UgcPaths

\* The five concatenation steps of process_video_pair, in source order.
ConcatTiers == <<"fast_copy", "reencode_audio", "reencode_video",
                 "simple_audio", "simple_video">>
ConcatTierSet == {ConcatTiers[i] : i \in 1..Len(ConcatTiers)}
OverlaySteps == {"overlay_a", "overlay_b"}
\* Steps that go through _run_ffmpeg_concat / _run_ffmpeg_command.
RunnerSteps == OverlaySteps \cup (ConcatTierSet \ {"fast_copy"})

NoProc == [state |-> "none", rc |-> 0, stderr |-> FALSE]
NoProbe == [dur1 |-> 0, dur2 |-> 0, out_dur |-> 0, verdict |-> "none"]
NoReturn == [ok |-> FALSE, err |-> "None"]
NoResult == [success |-> FALSE, used_fast_copy |-> FALSE, error_message |-> "None"]

\* Probed durations of the UGC source video, in ms: 0 (the probe failed), a
\* video shorter than the trim, 4100 and 10000.
UgcDurations == {0, 2000, 4100, 10000}

Word(start_ms) == [text |-> "w", start_ms |-> start_ms]

\* Word lists the transcription service may deliver (start times in ms).
Transcripts ==
    {<< >>,
     <<Word(0)>>,
     <<Word(0), Word(1299), Word(1300)>>,
     <<Word(0), Word(7199), Word(7200)>>,
     <<Word(7200), Word(9000)>>}

\* How a call of transcribe_with_assemblyai ends: the transcript completed, the
\* service reported status error, transcribe raised (network), or the client
\* library is missing.
TranscriptionOutcomes == {"completed", "error_status", "exception", "import_error"}

\* How the call ended as process_ugc_video sees it: a completed transcript
\* without words is "no_words".
TranscriptionFailures == {"no_words", "error_status", "exception", "import_error"}

NoCmd == [built |-> FALSE, t_ms |-> 0, inputs |-> << >>, parts |-> << >>, vout |-> "none"]
NoUgcLocals == [video_duration_ms |-> 0, trimmed_ms |-> 0, transcription |-> "none",
                transcript |-> << >>, words |-> << >>, cmd |-> NoCmd]

(***************************************************************************)
(* Pure helpers of src/processor.py                                        *)
(***************************************************************************)
Abs(x) == IF x < 0 THEN -x ELSE x
Max(a, b) == IF a > b THEN a ELSE b

\* A tolerance of 50% instead of 5%.
DurationWithinToleranceHalf(actual_ms, expected_ms) ==
    \/ actual_ms <= 0
    \/ expected_ms <= 0
    \/ Abs(actual_ms - expected_ms) <= Max(2000, expected_ms \div 2)

\* _duration_within_tolerance: int(expected_ms * 0.05) is expected_ms \div 20
\* for the non-negative durations probed here.
DurationWithinTolerance(actual_ms, expected_ms) ==
    \/ actual_ms <= 0
    \/ expected_ms <= 0
    \/ Abs(actual_ms - expected_ms) <= Max(2000, expected_ms \div 20)

\* The size check forgotten.
RunnerSuccessNoSize(rc, out) == rc = 0 /\ out # "absent"

\* process.returncode == 0 and output.exists() and output.stat().st_size > 0
RunnerSuccess(rc, out) == rc = 0 /\ out = "nonempty"

\* The fallback text forgotten: an empty stderr gives an empty error.
RunnerErrorNoFallback(stderr) == IF stderr THEN "diag" ELSE ""

\* error = stderr[-500:] if stderr else "Unknown error"
RunnerError(stderr) == IF stderr THEN "diag" ELSE "Unknown error"

\* The failed output left in place.
UnlinkSkipped(out) == out

\* if output.exists(): output.unlink()
UnlinkIfExists(out) == "absent"

\* if cancel_check and cancel_check()
CancelObserved(has_cancel_check, flag) == has_cancel_check /\ flag

\* The overlays ignored when deciding on fast copy.
FastCopyEnabledIgnoringOverlay(try_fast_copy, overlay_a_enabled, overlay_b_enabled) ==
    try_fast_copy

\* overlay_active = overlay_a_enabled or overlay_b_enabled;
\* if overlay_active and try_fast_copy: try_fast_copy = False
FastCopyEnabled(try_fast_copy, overlay_a_enabled, overlay_b_enabled) ==
    try_fast_copy /\ ~(overlay_a_enabled \/ overlay_b_enabled)

\* The path a runner step writes.
Target(step) ==
    CASE step = "overlay_a" -> "output_a"
      [] step = "overlay_b" -> "output_b"
      [] step = "ugc_append_audio" -> "output_path"
      [] OTHER -> "output_flat"

\* A fallback that goes on after a tier has succeeded.
NextStepIgnoringSuccess(step, ok) ==
    CASE step = "fast_copy" -> IF ok THEN "finish" ELSE "reencode_audio"
      [] step = "reencode_audio" -> "reencode_video"
      [] step = "reencode_video" -> IF ok THEN "finish" ELSE "simple_audio"
      [] step = "simple_audio" -> IF ok THEN "finish" ELSE "simple_video"
      [] OTHER -> "finish"

\* The fallback chain of process_video_pair: reencode_concat (with audio, then
\* video only), then simple_video_concat (with audio, then video only).
NextStep(step, ok) ==
    CASE step = "fast_copy" -> IF ok THEN "finish" ELSE "reencode_audio"
      [] step = "reencode_audio" -> IF ok THEN "finish" ELSE "reencode_video"
      [] step = "reencode_video" -> IF ok THEN "finish" ELSE "simple_audio"
      [] step = "simple_audio" -> IF ok THEN "finish" ELSE "simple_video"
      [] OTHER -> "finish"

(***************************************************************************)
(* Pure helpers of src/ugc_processor.py                                    *)
(***************************************************************************)
\* trim_amount_sec = 2.8, in ms
TrimAmountMs == 2800

\* trimmed_duration_sec = max(0, video_duration_sec - trim_amount_sec), in ms.
\* The double the code computes is within a nanosecond of this value; it is
\* what the command passes to -t.
TrimmedSegmentMs(video_duration_ms) == Max(0, video_duration_ms - TrimAmountMs)

\* The durations of UgcDurations for which the double (d / 1000 - 2.8) * 1000
\* lies just below the exact value: 4100 / 1000 - 2.8 is 1.2999999999999998
\* and the product is 1299.9999999999998.  For 10000 the product is 7200.0.
ProductBelowExact == {4100}

\* trimmed_duration_ms = int(trimmed_duration_sec * 1000): int() truncates.
TrimmedDurationMs(video_duration_ms) ==
    IF video_duration_ms \in ProductBelowExact
    THEN TrimmedSegmentMs(video_duration_ms) - 1
    ELSE TrimmedSegmentMs(video_duration_ms)

\* words = [w for w in words if w.start_ms < trimmed_duration_ms]
WordsWithin(words, trimmed_duration_ms) ==
    LET Within(w) == w.start_ms < trimmed_duration_ms
    IN SelectSeq(words, Within)

\* The status check forgotten: the words of a failed transcript are used.
TranscribeIgnoringStatus(outcome, delivered) ==
    IF outcome \in {"completed", "error_status"} THEN delivered ELSE << >>

\* transcribe_with_assemblyai: the words of a completed transcript; [] when the
\* status is error, on ImportError and on any other exception.
TranscribeWithAssemblyai(outcome, delivered) ==
    IF outcome = "completed" THEN delivered ELSE << >>

\* The index of add1 taken to be 2 whether or not add2 is an input.
Add1InputIdxFixed(add2_exists) == 2

\* add1_input_idx = 2 if add2_overlay.exists() else 1
Add1InputIdx(add2_exists) == IF add2_exists THEN 2 ELSE 1

\* The filter graph of the overlay pass: filter_parts in the order they are
\* appended, each with the label it reads ([current_label]), the index of the
\* command input it overlays (-1: none) and the label it writes; vout is the
\* label copied to [vout].
FilterComplex(captioned, add2_exists, add1_exists) ==
    LET parts1 == IF captioned
                  THEN <<[layer |-> "captions", base |-> "0:v",
                          input_idx |-> -1, out |-> "captioned"]>>
                  ELSE << >>
        label1 == IF captioned THEN "captioned" ELSE "0:v"
        parts2 == IF add2_exists
                  THEN Append(parts1, [layer |-> "add2", base |-> label1,
                                       input_idx |-> 1, out |-> "with_add2"])
                  ELSE parts1
        label2 == IF add2_exists THEN "with_add2" ELSE label1
        parts3 == IF add1_exists
                  THEN Append(parts2, [layer |-> "add1", base |-> label2,
                                       input_idx |-> Add1InputIdx(add2_exists),
                                       out |-> "with_add1"])
                  ELSE parts2
        label3 == IF add1_exists THEN "with_add1" ELSE label2
    IN [parts |-> parts3, vout |-> label3]

\* The -i arguments of the overlay command, in order: input 0 is the source.
CommandInputs(add2_exists, add1_exists) ==
    <<"input_video">>
    \o (IF add2_exists THEN <<"add2_overlay">> ELSE << >>)
    \o (IF add1_exists THEN <<"add1_overlay">> ELSE << >>)

\* The copy taken whether or not there is an end-segment asset.
AppendsEndStingNever(clip_end_exists) == FALSE

\* if clip_end.exists(): concatenate_with_end_sting(...) else: shutil.copy2(...)
AppendsEndSting(clip_end_exists) == clip_end_exists

(***************************************************************************)
(* Initial states: one call, its arguments drawn from all combinations     *)
(***************************************************************************)
PairArgs ==
    [is_matched : BOOLEAN, overlay_a_enabled : BOOLEAN, overlay_b_enabled : BOOLEAN,
     try_fast_copy : BOOLEAN, has_cancel_check : BOOLEAN]

InitCommon ==
    /\ phase = "call"
    /\ rr = NoReturn
    /\ cancelFlag = FALSE
    /\ proc = NoProc
    /\ file = [p \in Paths |-> "absent"]
    /\ temps = {}
    /\ created = {}
    /\ tierLog = << >>
    /\ probe = NoProbe

InitPair ==
    /\ job = "pair"
    /\ args \in PairArgs
    /\ pc = "start"
    /\ loc = NoResult
    /\ InitCommon
    /\ result = NoResult

UgcArgs ==
    [enable_captions : BOOLEAN, add1_exists : BOOLEAN, add2_exists : BOOLEAN,
     clip_end_exists : BOOLEAN, has_cancel_check : BOOLEAN]

InitUgc ==
    /\ job = "ugc"
    /\ args \in UgcArgs
    /\ pc = "ugc_start"
    /\ loc = NoUgcLocals
    /\ InitCommon
    /\ result = NoResult

Init == InitPair \/ InitUgc

(***************************************************************************)
(* The environment                                                         *)
(***************************************************************************)
\* The caller sets the cancellation flag (ProcessingWorker.cancel).
SetCancel ==
    /\ args.has_cancel_check
    /\ pc \notin {"done", "raised"}
    /\ ~cancelFlag
    /\ cancelFlag' = TRUE
    /\ UNCHANGED <<job, args, pc, phase, rr, proc, file, temps, created,
                   tierLog, loc, probe, result>>

\* The running tool creates its output file, then writes data to it.  A tool
\* that has exited, or that the runner has terminated or killed, writes no more.
ProcWrite ==
    /\ proc.state = "running"
    /\ phase = "polling"
    /\ file[Target(pc)] # "nonempty"
    /\ file' = [file EXCEPT ![Target(pc)] =
                   IF @ = "absent" THEN "empty" ELSE "nonempty"]
    /\ UNCHANGED <<job, args, pc, phase, rr, cancelFlag, proc, temps, created,
                   tierLog, loc, probe, result>>

\* The running tool exits, with exit code 0 or not, having written to stderr or not.
ProcExit ==
    /\ proc.state = "running"
    /\ phase = "polling"
    /\ \E rc \in {0, 1}, stderr \in BOOLEAN :
          proc' = [state |-> "exited", rc |-> rc, stderr |-> stderr]
    /\ UNCHANGED <<job, args, pc, phase, rr, cancelFlag, file, temps, created,
                   tierLog, loc, probe, result>>

(***************************************************************************)
(* The tool-invocation log                                                 *)
(***************************************************************************)
LogStart(step) == Append(tierLog, [tier |-> step, outcome |-> "running"])

LogEnd(log, outcome) == [log EXCEPT ![Len(log)].outcome = outcome]

Outcome(ok, err) ==
    IF ok THEN "ok" ELSE IF err = "Cancelled by user" THEN "cancelled" ELSE "fail"

(***************************************************************************)
(* The process runner: _run_ffmpeg_concat and _run_ffmpeg_command          *)
(***************************************************************************)
\* The runner (or the helper around it) returns (ok, err) to its caller.  The
\* temporary directory of _apply_text_overlay_with_image ends with the call.
Return(step, ok, err, tempsNow) ==
    /\ rr' = [ok |-> ok, err |-> err]
    /\ phase' = "returned"
    /\ temps' = IF step \in OverlaySteps THEN tempsNow \ {"overlay_tmpdir"} ELSE tempsNow

\* subprocess.Popen(cmd): the tool starts, or Popen raises and the runner's
\* except branch removes the output and returns (False, str(e)).
Launch(step, tempsNow) ==
    \/ /\ proc' = [state |-> "running", rc |-> 0, stderr |-> FALSE]
       /\ phase' = "polling"
       /\ tierLog' = LogStart(step)
       /\ temps' = tempsNow
       /\ UNCHANGED <<rr, file>>
    \/ /\ proc' = NoProc
       /\ tierLog' = LogEnd(LogStart(step), "fail")
       /\ file' = [file EXCEPT ![Target(step)] = UnlinkIfExists(@)]
       /\ Return(step, FALSE, "exc", tempsNow)

\* process.communicate(timeout=1) returned: the tool has exited.
PollExited(step) ==
    /\ pc = step
    /\ phase = "polling"
    /\ proc.state = "exited"
    /\ LET ok == RunnerSuccess(proc.rc, file[Target(step)])
           err == IF ok THEN "" ELSE RunnerError(proc.stderr)
       IN /\ file' = IF ok THEN file
                     ELSE [file EXCEPT ![Target(step)] = UnlinkIfExists(@)]
          /\ tierLog' = LogEnd(tierLog, Outcome(ok, err))
          /\ Return(step, ok, err, temps)
    /\ UNCHANGED <<job, args, pc, cancelFlag, proc, created, loc, probe, result>>

\* communicate timed out and cancel_check() is true: terminate, wait up to 5 s,
\* kill if the tool has not exited by then, remove the output, return
\* (False, "Cancelled by user").  kill() is not followed by a wait.
PollCancelled(step) ==
    /\ pc = step
    /\ phase = "polling"
    /\ proc.state = "running"
    /\ CancelObserved(args.has_cancel_check, cancelFlag)
    /\ \E graceful \in BOOLEAN :
          proc' = [state |-> IF graceful THEN "exited" ELSE "killed",
                   rc |-> 1, stderr |-> FALSE]
    /\ file' = [file EXCEPT ![Target(step)] = UnlinkIfExists(@)]
    /\ tierLog' = LogEnd(tierLog, "cancelled")
    /\ Return(step, FALSE, "Cancelled by user", temps)
    /\ UNCHANGED <<job, args, pc, cancelFlag, created, loc, probe, result>>

(***************************************************************************)
(* process_video_pair                                                      *)
(***************************************************************************)
Failure(err) == [success |-> FALSE, used_fast_copy |-> FALSE, error_message |-> err]

\* Leaving the "with tempfile.TemporaryDirectory()" block removes the directory
\* and the overlay outputs in it.
WithoutPairTmpdir(f) == [f EXCEPT !["output_a"] = "absent", !["output_b"] = "absent"]

AfterOverlays ==
    IF FastCopyEnabled(args.try_fast_copy, args.overlay_a_enabled, args.overlay_b_enabled)
    THEN "fast_copy" ELSE "reencode_audio"

OverlayEnabled(step) ==
    IF step = "overlay_a" THEN args.overlay_a_enabled ELSE args.overlay_b_enabled

AfterOverlay(step) == IF step = "overlay_a" THEN "overlay_b" ELSE AfterOverlays

\* The entry of process_video_pair, up to the creation of its temporary directory.
PairStart ==
    /\ job = "pair"
    /\ pc = "start"
    /\ \/ /\ ~args.is_matched
          /\ result' = Failure("Not a matched pair")
          /\ pc' = "done"
          /\ UNCHANGED <<temps, created>>
       \/ /\ args.is_matched
          /\ pc' = "overlay_a"
          /\ temps' = temps \cup {"pair_tmpdir"}
          /\ created' = created \cup {"pair_tmpdir"}
          /\ UNCHANGED result
       \/ \* output_flat.parent.mkdir raises
          /\ args.is_matched
          /\ pc' = "raised"
          /\ UNCHANGED <<temps, created, result>>
    /\ UNCHANGED <<job, args, phase, rr, cancelFlag, proc, file, tierLog, loc, probe>>

\* A side without an enabled overlay is not pre-processed.
OverlaySkip(step) ==
    /\ job = "pair"
    /\ pc = step
    /\ phase = "call"
    /\ ~OverlayEnabled(step)
    /\ pc' = AfterOverlay(step)
    /\ UNCHANGED <<job, args, phase, rr, cancelFlag, proc, file, temps, created,
                   tierLog, loc, probe, result>>

\* apply_text_overlay, up to the launch of the tool: drawtext directly, or the
\* image route of _apply_text_overlay_with_image in its own temporary directory.
ApplyTextOverlay(step) ==
    /\ job = "pair"
    /\ pc = step
    /\ phase = "call"
    /\ OverlayEnabled(step)
    /\ \/ /\ Launch(step, temps)
          /\ UNCHANGED <<created, pc>>
       \/ /\ Launch(step, temps \cup {"overlay_tmpdir"})
          /\ created' = created \cup {"overlay_tmpdir"}
          /\ UNCHANGED pc
       \/ \* _render_text_overlay_image returns (False, "Pillow not installed ...")
          /\ created' = created \cup {"overlay_tmpdir"}
          /\ Return(step, FALSE, "Pillow not installed", temps)
          /\ UNCHANGED <<proc, file, tierLog, pc>>
       \/ \* image.save raises: both with-blocks clean up, the exception leaves the call
          /\ created' = created \cup {"overlay_tmpdir"}
          /\ temps' = temps \ {"pair_tmpdir"}
          /\ file' = WithoutPairTmpdir(file)
          /\ pc' = "raised"
          /\ UNCHANGED <<proc, tierLog, rr, phase>>
    /\ UNCHANGED <<job, args, cancelFlag, loc, probe, result>>

\* process_video_pair after apply_text_overlay returned.
OverlayReturned(step) ==
    /\ job = "pair"
    /\ pc = step
    /\ step \in OverlaySteps
    /\ phase = "returned"
    /\ phase' = "call"
    /\ IF rr.ok
       THEN /\ pc' = AfterOverlay(step)
            /\ UNCHANGED <<result, temps, file>>
       ELSE /\ result' = Failure(rr.err)
            /\ temps' = temps \ {"pair_tmpdir"}
            /\ file' = WithoutPairTmpdir(file)
            /\ pc' = "done"
    /\ UNCHANGED <<job, args, rr, cancelFlag, proc, created, tierLog, loc, probe>>

\* try_fast_copy_concat, first half: the list file is written and
\* subprocess.run(cmd, timeout=300) runs the tool to its end, or raises.
FastCopyRun ==
    /\ job = "pair"
    /\ pc = "fast_copy"
    /\ phase = "call"
    /\ temps' = temps \cup {"list_file"}
    /\ created' = created \cup {"list_file"}
    /\ tierLog' = LogStart("fast_copy")
    /\ phase' = "ran"
    /\ \/ \E rc \in {0, 1}, stderr \in BOOLEAN, out \in FileState :
             /\ proc' = [state |-> "exited", rc |-> rc, stderr |-> stderr]
             /\ file' = [file EXCEPT !["output_flat"] = out]
       \/ \E out \in FileState :
             /\ proc' = [state |-> "raised", rc |-> 1, stderr |-> FALSE]
             /\ file' = [file EXCEPT !["output_flat"] = out]
    /\ UNCHANGED <<job, args, pc, rr, cancelFlag, loc, probe, result>>

\* try_fast_copy_concat, second half: the output is validated against the probed
\* durations, a rejected or failed output is removed, the list file is removed.
FastCopyCheck ==
    /\ job = "pair"
    /\ pc = "fast_copy"
    /\ phase = "ran"
    /\ phase' = "call"
    /\ temps' = temps \ {"list_file"}
    /\ IF proc.state = "exited" /\ RunnerSuccess(proc.rc, file["output_flat"])
       THEN \E dur1, dur2 \in DurationValues :
             \E out_dur \in OutDurationsFor(dur1 + dur2) :
               LET ok == DurationWithinTolerance(out_dur, dur1 + dur2)
               IN /\ probe' = [dur1 |-> dur1, dur2 |-> dur2, out_dur |-> out_dur,
                               verdict |-> IF ok THEN "accepted" ELSE "rejected"]
                  /\ file' = IF ok THEN file
                             ELSE [file EXCEPT !["output_flat"] = UnlinkIfExists(@)]
                  /\ tierLog' = LogEnd(tierLog, IF ok THEN "ok" ELSE "fail")
                  /\ loc' = [loc EXCEPT !.success = ok, !.used_fast_copy = ok]
                  /\ pc' = NextStep("fast_copy", ok)
       ELSE /\ probe' = [probe EXCEPT !.verdict = "toolfail"]
            /\ file' = [file EXCEPT !["output_flat"] = UnlinkIfExists(@)]
            /\ tierLog' = LogEnd(tierLog, "fail")
            /\ pc' = NextStep("fast_copy", FALSE)
            /\ UNCHANGED loc
    /\ UNCHANGED <<job, args, rr, cancelFlag, proc, created, result>>

\* One re-encode run of reencode_concat or simple_video_concat is launched.
ConcatTierCall(step) ==
    /\ job = "pair"
    /\ pc = step
    /\ step \in ConcatTierSet \ {"fast_copy"}
    /\ phase = "call"
    /\ Launch(step, temps)
    /\ UNCHANGED <<job, args, pc, cancelFlag, created, loc, probe, result>>

\* The run returned (success, error): success ends the chain, failure of whatever
\* kind goes on to the next run.
ConcatTierReturned(step) ==
    /\ job = "pair"
    /\ pc = step
    /\ step \in ConcatTierSet \ {"fast_copy"}
    /\ phase = "returned"
    /\ phase' = "call"
    /\ loc' = [loc EXCEPT !.success = rr.ok, !.error_message = rr.err]
    /\ pc' = NextStep(step, rr.ok)
    /\ UNCHANGED <<job, args, rr, cancelFlag, proc, file, temps, created,
                   tierLog, probe, result>>

\* The end of process_video_pair: the nested copy on success (a failure of the
\* copy is logged as a warning only), the result, the end of the with-block.
PairFinish ==
    /\ job = "pair"
    /\ pc = "finish"
    /\ pc' = "done"
    /\ result' = loc
    /\ temps' = temps \ {"pair_tmpdir"}
    /\ IF loc.success
       THEN \/ file' = [WithoutPairTmpdir(file) EXCEPT
                           !["output_nested"] = file["output_flat"]]
            \/ \E left \in {"absent", "empty"} :
                  file' = [WithoutPairTmpdir(file) EXCEPT !["output_nested"] = left]
       ELSE file' = WithoutPairTmpdir(file)
    /\ UNCHANGED <<job, args, phase, rr, cancelFlag, proc, created, tierLog, loc, probe>>

PairNext ==
    \/ PairStart
    \/ \E step \in OverlaySteps :
          OverlaySkip(step) \/ ApplyTextOverlay(step) \/ OverlayReturned(step)
    \/ FastCopyRun
    \/ FastCopyCheck
    \/ \E step \in ConcatTierSet \ {"fast_copy"} :
          ConcatTierCall(step) \/ ConcatTierReturned(step)
    \/ \E step \in RunnerSteps : PollExited(step) \/ PollCancelled(step)
    \/ PairFinish

(***************************************************************************)
(* process_ugc_video and concatenate_with_end_sting (src/ugc_processor.py)  *)
(***************************************************************************)
UgcFailure(err) == [success |-> FALSE, error_message |-> err]

\* The entry of process_ugc_video: the cancellation check, the probes, mkdtemp.
UgcStart ==
    /\ job = "ugc"
    /\ pc = "ugc_start"
    /\ IF CancelObserved(args.has_cancel_check, cancelFlag)
       THEN /\ result' = UgcFailure("Cancelled by user")
            /\ pc' = "done"
            /\ UNCHANGED <<temps, created, loc>>
       ELSE /\ \E d \in UgcDurations :
                  loc' = [loc EXCEPT !.video_duration_ms = d,
                                     !.trimmed_ms = TrimmedSegmentMs(d)]
            /\ \/ /\ temps' = temps \cup {"ugc_tmpdir"}
                  /\ created' = created \cup {"ugc_tmpdir"}
                  /\ pc' = "ugc_captions"
                  /\ UNCHANGED result
               \/ \* tempfile.mkdtemp raises: the except branch returns str(e)
                  /\ result' = UgcFailure("exc")
                  /\ pc' = "done"
                  /\ UNCHANGED <<temps, created>>
    /\ UNCHANGED <<job, args, phase, rr, cancelFlag, proc, file, tierLog, probe>>

\* Steps 1 and 2: the transcript (an empty list on any failure) and, when there
\* are words, the words within the trimmed duration written to the caption file
\* in the temporary directory.
UgcCaptions ==
    /\ job = "ugc"
    /\ pc = "ugc_captions"
    /\ \/ /\ ~args.enable_captions
          /\ loc' = [loc EXCEPT !.transcription = "disabled"]
          /\ pc' = "ugc_overlay"
          /\ UNCHANGED <<file, result>>
       \/ /\ args.enable_captions
          /\ \E outcome \in TranscriptionOutcomes, delivered \in Transcripts :
                LET words == TranscribeWithAssemblyai(outcome, delivered)
                    kept == WordsWithin(words, TrimmedDurationMs(loc.video_duration_ms))
                IN IF words = << >>
                   THEN \* "No words transcribed, continuing without captions"
                        /\ loc' = [loc EXCEPT !.transcription =
                                      IF outcome = "completed" THEN "no_words"
                                      ELSE outcome]
                        /\ pc' = "ugc_overlay"
                        /\ UNCHANGED <<file, result>>
                   ELSE \/ \* generate_ass_subtitles wrote captions.ass
                           /\ loc' = [loc EXCEPT !.transcription = outcome,
                                                 !.transcript = words,
                                                 !.words = kept]
                           /\ file' = [file EXCEPT !["ass_file"] = "nonempty"]
                           /\ pc' = "ugc_overlay"
                           /\ UNCHANGED result
                        \/ \* writing captions.ass raises: the except branch
                           \* returns str(e)
                           /\ loc' = [loc EXCEPT !.transcription = outcome,
                                                 !.transcript = words,
                                                 !.words = kept]
                           /\ result' = UgcFailure("exc")
                           /\ pc' = "done"
                           /\ UNCHANGED file
    /\ UNCHANGED <<job, args, phase, rr, cancelFlag, proc, temps, created,
                   tierLog, probe>>

\* Step 3: the filter graph and the command are built, then
\* subprocess.run(cmd, timeout=600) runs the overlay pass.  A non-zero exit and
\* an exception both return a failure from where they are.
UgcOverlayPass ==
    /\ job = "ugc"
    /\ pc = "ugc_overlay"
    /\ LET captioned == loc.words # << >> /\ file["ass_file"] # "absent"
           fc == FilterComplex(captioned, args.add2_exists, args.add1_exists)
       IN loc' = [loc EXCEPT !.cmd =
                     [built |-> TRUE,
                      t_ms |-> loc.trimmed_ms,
                      inputs |-> CommandInputs(args.add2_exists, args.add1_exists),
                      parts |-> fc.parts,
                      vout |-> fc.vout]]
    /\ \/ \E out \in FileState :
             /\ proc' = [state |-> "exited", rc |-> 0, stderr |-> FALSE]
             /\ file' = [file EXCEPT !["intermediate_video"] = out]
             /\ tierLog' = LogEnd(LogStart("ugc_overlay"), "ok")
             /\ pc' = "ugc_step4"
             /\ UNCHANGED result
       \/ \E out \in FileState :
             /\ proc' = [state |-> "exited", rc |-> 1, stderr |-> TRUE]
             /\ file' = [file EXCEPT !["intermediate_video"] = out]
             /\ tierLog' = LogEnd(LogStart("ugc_overlay"), "fail")
             /\ result' = UgcFailure("FFmpeg overlay failed")
             /\ pc' = "done"
       \/ \E out \in FileState :
             /\ proc' = [state |-> "raised", rc |-> 1, stderr |-> FALSE]
             /\ file' = [file EXCEPT !["intermediate_video"] = out]
             /\ tierLog' = LogEnd(LogStart("ugc_overlay"), "fail")
             /\ result' = UgcFailure("exc")
             /\ pc' = "done"
    /\ UNCHANGED <<job, args, phase, rr, cancelFlag, temps, created, probe>>

\* Step 4: with an end-segment asset concatenate_with_end_sting starts the
\* with-audio run; without one the intermediate is copied to output_path.
UgcStep4 ==
    /\ job = "ugc"
    /\ pc = "ugc_step4"
    /\ IF AppendsEndSting(args.clip_end_exists)
       THEN \/ /\ proc' = [state |-> "running", rc |-> 0, stderr |-> FALSE]
               /\ tierLog' = LogStart("ugc_append_audio")
               /\ pc' = "ugc_append_audio"
               /\ phase' = "polling"
               /\ UNCHANGED <<rr, file, result>>
            \/ \* Popen raises: concatenate_with_end_sting returns False
               /\ proc' = NoProc
               /\ tierLog' = LogEnd(LogStart("ugc_append_audio"), "fail")
               /\ rr' = [ok |-> FALSE, err |-> "exc"]
               /\ pc' = "ugc_cleanup"
               /\ UNCHANGED <<phase, file, result>>
       ELSE \/ \* shutil.copy2(intermediate_video, output_path)
               /\ file["intermediate_video"] # "absent"
               /\ file' = [file EXCEPT !["output_path"] = file["intermediate_video"]]
               /\ rr' = [ok |-> TRUE, err |-> ""]
               /\ pc' = "ugc_cleanup"
               /\ UNCHANGED <<proc, tierLog, phase, result>>
            \/ \* copy2 raises: the except branch returns str(e)
               /\ \E left \in {file["output_path"], "empty"} :
                     file' = [file EXCEPT !["output_path"] = left]
               /\ result' = UgcFailure("exc")
               /\ pc' = "done"
               /\ UNCHANGED <<proc, tierLog, phase, rr>>
    /\ UNCHANGED <<job, args, cancelFlag, temps, created, loc, probe>>

\* concatenate_with_end_sting, communicate returned: the with-audio run counts
\* as succeeded when it exited 0 and the output exists.
UgcAppendExited ==
    /\ job = "ugc"
    /\ pc = "ugc_append_audio"
    /\ phase = "polling"
    /\ proc.state = "exited"
    /\ phase' = "call"
    /\ IF proc.rc = 0 /\ file["output_path"] # "absent"
       THEN /\ rr' = [ok |-> TRUE, err |-> ""]
            /\ tierLog' = LogEnd(tierLog, "ok")
            /\ pc' = "ugc_cleanup"
       ELSE /\ tierLog' = LogEnd(tierLog, "fail")
            /\ pc' = "ugc_append_video"
            /\ UNCHANGED rr
    /\ UNCHANGED <<job, args, cancelFlag, proc, file, temps, created, loc, probe, result>>

\* concatenate_with_end_sting, communicate timed out with cancel_check() true.
UgcAppendCancelled ==
    /\ job = "ugc"
    /\ pc = "ugc_append_audio"
    /\ phase = "polling"
    /\ proc.state = "running"
    /\ CancelObserved(args.has_cancel_check, cancelFlag)
    /\ \E graceful \in BOOLEAN :
          proc' = [state |-> IF graceful THEN "exited" ELSE "killed",
                   rc |-> 1, stderr |-> FALSE]
    /\ file' = [file EXCEPT !["output_path"] = UnlinkIfExists(@)]
    /\ tierLog' = LogEnd(tierLog, "cancelled")
    /\ rr' = [ok |-> FALSE, err |-> "Cancelled by user"]
    /\ phase' = "call"
    /\ pc' = "ugc_cleanup"
    /\ UNCHANGED <<job, args, cancelFlag, temps, created, loc, probe, result>>

\* The video-only fallback: subprocess.run(cmd_video_only, timeout=300).  The
\* tool overwrites the output once it has opened it.
UgcAppendVideoOnly ==
    /\ job = "ugc"
    /\ pc = "ugc_append_video"
    /\ pc' = "ugc_cleanup"
    /\ \E out \in {file["output_path"], "empty", "nonempty"} :
          /\ file' = [file EXCEPT !["output_path"] = out]
          /\ \/ \E rc \in {0, 1} :
                   /\ proc' = [state |-> "exited", rc |-> rc, stderr |-> rc # 0]
                   /\ rr' = [ok |-> rc = 0 /\ out # "absent", err |-> ""]
                   /\ tierLog' = LogEnd(LogStart("ugc_append_video"),
                                        IF rc = 0 /\ out # "absent" THEN "ok" ELSE "fail")
             \/ \* run raises (timeout, launch): the except branch returns False
                /\ proc' = [state |-> "raised", rc |-> 1, stderr |-> FALSE]
                /\ rr' = [ok |-> FALSE, err |-> "exc"]
                /\ tierLog' = LogEnd(LogStart("ugc_append_video"), "fail")
    /\ UNCHANGED <<job, args, phase, cancelFlag, temps, created, loc, probe, result>>

\* After step 4: shutil.rmtree(temp_dir), then the result.
UgcCleanup ==
    /\ job = "ugc"
    /\ pc = "ugc_cleanup"
    /\ temps' = temps \ {"ugc_tmpdir"}
    /\ file' = [file EXCEPT !["intermediate_video"] = "absent", !["ass_file"] = "absent"]
    /\ result' = IF rr.ok THEN [success |-> TRUE, error_message |-> "None"]
                 ELSE UgcFailure("Failed to concatenate end sting")
    /\ pc' = "done"
    /\ UNCHANGED <<job, args, phase, rr, cancelFlag, proc, created, tierLog, loc, probe>>

UgcNext ==
    \/ UgcStart
    \/ UgcCaptions
    \/ UgcOverlayPass
    \/ UgcStep4
    \/ UgcAppendExited
    \/ UgcAppendCancelled
    \/ UgcAppendVideoOnly
    \/ UgcCleanup

Next == PairNext \/ UgcNext \/ SetCancel \/ ProcWrite \/ ProcExit

Spec == Init /\ [][Next]_vars

(***************************************************************************)
(* The matcher of src/processor.py: scan_video_files, find_matches,        *)
(* natural_sort_key, VideoMatch, get_match_counts.  One behaviour of       *)
(* MatchSpec is one call of find_matches on two folders followed by        *)
(* get_match_counts.  A basename is the sequence of its characters; "sup2" *)
(* stands for the character SUPERSCRIPT TWO (U+00B2).                      *)
(***************************************************************************)
\* The largest number of entries in a folder.
MaxFiles == 2

Entry(stem, suffix, is_file) == [stem |-> stem, suffix |-> suffix, is_file |-> is_file]

\* The directory entries a folder may hold: x.mp4, x.mov, y.mp4, clip1.mp4,
\* clip2.mp4, clip10.mp4, Clip2.MOV, clip1(sup2).mp4, notes.txt and a directory
\* named z.mp4.
DirEntries ==
    {Entry(<<"x">>, ".mp4", TRUE),
     Entry(<<"x">>, ".mov", TRUE),
     Entry(<<"y">>, ".mp4", TRUE),
     Entry(<<"c", "l", "i", "p", "1">>, ".mp4", TRUE),
     Entry(<<"c", "l", "i", "p", "2">>, ".mp4", TRUE),
     Entry(<<"c", "l", "i", "p", "1", "0">>, ".mp4", TRUE),
     Entry(<<"C", "l", "i", "p", "2">>, ".MOV", TRUE),
     Entry(<<"c", "l", "i", "p", "1", "sup2">>, ".mp4", TRUE),
     Entry(<<"n", "o", "t", "e", "s">>, ".txt", TRUE),
     Entry(<<"z">>, ".mp4", FALSE)}

Folders == {S \in SUBSET DirEntries : Cardinality(S) <= MaxFiles}

\* None
NoFile == Entry(<< >>, "", FALSE)

VIDEO_EXTENSIONS ==
    {".mp4", ".mov", ".avi", ".mkv", ".wmv", ".flv", ".webm", ".m4v", ".mpg",
     ".mpeg", ".3gp"}

\* file.suffix.lower()
SuffixLower(suffix) == IF suffix = ".MOV" THEN ".mov" ELSE suffix

\* The orders in which iterdir() or the iteration of a set may yield S.
Orders(S) ==
    {q \in [1..Cardinality(S) -> S] :
        \A i, j \in 1..Cardinality(S) : i # j => q[i] # q[j]}

\* scan_video_files from entry i of the iteration on: a file with a video
\* suffix is kept unless its stem is already a key of videos.
RECURSIVE ScanFrom(_, _, _)
ScanFrom(order, i, videos) ==
    IF i > Len(order) THEN videos
    ELSE LET f == order[i]
         IN IF /\ f.is_file
               /\ SuffixLower(f.suffix) \in VIDEO_EXTENSIONS
               /\ \A v \in videos : v.stem # f.stem
            THEN ScanFrom(order, i + 1, videos \cup {f})
            ELSE ScanFrom(order, i + 1, videos)

\* videos.keys() and videos.get(basename) of the dict scan_video_files returns.
Keys(videos) == {v.stem : v \in videos}

Get(videos, basename) ==
    IF basename \in Keys(videos)
    THEN CHOOSE v \in videos : v.stem = basename
    ELSE NoFile

\* The characters the pattern \d matches.
IsDecimal(c) == c \in {"0", "1", "2"}

\* The characters for which str.isdigit() is true.
IsDigit(c) == c \in {"0", "1", "2", "sup2"}

DigitValue(c) == CASE c = "0" -> 0 [] c = "1" -> 1 [] c = "2" -> 2

\* str.lower()
Lower(c) == IF c = "C" THEN "c" ELSE c

\* The code point of a character.
Ord(c) ==
    CASE c = "0" -> 48 [] c = "1" -> 49 [] c = "2" -> 50 [] c = "C" -> 67
      [] c = "c" -> 99 [] c = "e" -> 101 [] c = "i" -> 105 [] c = "l" -> 108
      [] c = "n" -> 110 [] c = "o" -> 111 [] c = "p" -> 112 [] c = "s" -> 115
      [] c = "t" -> 116 [] c = "x" -> 120 [] c = "y" -> 121 [] c = "z" -> 122
      [] c = "sup2" -> 178

\* re.split(r'(\d+)', s) from character i on: runs holds the pieces so far, the
\* pieces at odd places are the texts between the digit runs (possibly empty),
\* those at even places the digit runs.
RECURSIVE SplitDigits(_, _, _)
SplitDigits(s, i, runs) ==
    LET n == Len(runs)
        inDigits == n % 2 = 0
    IN IF i > Len(s)
       THEN IF inDigits THEN Append(runs, << >>) ELSE runs
       ELSE IF IsDecimal(s[i]) = inDigits
            THEN SplitDigits(s, i + 1, [runs EXCEPT ![n] = Append(@, s[i])])
            ELSE SplitDigits(s, i + 1, Append(runs, <<s[i]>>))

\* int(text) of a run of decimal digits
RECURSIVE IntOf(_)
IntOf(text) ==
    IF text = << >> THEN 0
    ELSE 10 * IntOf(SubSeq(text, 1, Len(text) - 1)) + DigitValue(text[Len(text)])

\* int(text) if text.isdigit() else text.lower(): int() raises ValueError on a
\* text that isdigit() accepts and that is not made of decimal digits.
KeyPart(text) ==
    IF text # << >> /\ \A i \in 1..Len(text) : IsDigit(text[i])
    THEN IF \A i \in 1..Len(text) : IsDecimal(text[i])
         THEN [kind |-> "int", n |-> IntOf(text), s |-> << >>]
         ELSE [kind |-> "ValueError", n |-> 0, s |-> << >>]
    ELSE [kind |-> "str", n |-> 0, s |-> [i \in 1..Len(text) |-> Lower(text[i])]]

\* natural_sort_key
NaturalSortKey(s) ==
    LET runs == SplitDigits(s, 1, << << >> >>)
    IN [i \in 1..Len(runs) |-> KeyPart(runs[i])]

KeyRaises(s) ==
    \E i \in 1..Len(NaturalSortKey(s)) : NaturalSortKey(s)[i].kind = "ValueError"

\* a < b of two str: by code point, a proper prefix first.
StrLess(a, b) ==
    \E k \in 1..(Len(a) + 1) :
        /\ \A i \in 1..(k - 1) : a[i] = b[i]
        /\ k <= Len(b)
        /\ (k = Len(a) + 1 \/ Ord(a[k]) < Ord(b[k]))

\* p < q of two parts at the same place of two keys: both int or both str.
PartLess(p, q) == IF p.kind = "int" THEN p.n < q.n ELSE StrLess(p.s, q.s)

\* k1 < k2 of two lists: at the first place where they differ, a proper prefix
\* first.
KeyLess(k1, k2) ==
    \E k \in 1..(Len(k1) + 1) :
        /\ \A i \in 1..(k - 1) : i <= Len(k2) /\ k1[i] = k2[i]
        /\ k <= Len(k2)
        /\ (k = Len(k1) + 1 \/ PartLess(k1[k], k2[k]))

\* matches.sort(key=...) of a list built in the iteration order of a set: the
\* sort is stable, so the basenames come out by ascending key and basenames of
\* equal key in any order.
RECURSIVE SortedOrders(_)
SortedOrders(S) ==
    IF S = {} THEN {<< >>}
    ELSE UNION {{<<m>> \o q : q \in SortedOrders(S \ {m})} :
                  m \in {x \in S : \A y \in S :
                            ~KeyLess(NaturalSortKey(y), NaturalSortKey(x))}}

VideoMatch(basename, videos_a, videos_b) ==
    [basename |-> basename,
     file_a |-> Get(videos_a, basename),
     file_b |-> Get(videos_b, basename)]

\* VideoMatch.is_matched and VideoMatch.status
IsMatched(m) == m.file_a # NoFile /\ m.file_b # NoFile

Status(m) ==
    IF IsMatched(m) THEN "Matched"
    ELSE IF m.file_a = NoFile THEN "Only in B" ELSE "Only in A"

\* get_match_counts
MatchCounts(matches) ==
    [matched |-> Cardinality({i \in 1..Len(matches) : IsMatched(matches[i])}),
     only_a |-> Cardinality({i \in 1..Len(matches) :
                   matches[i].file_a # NoFile /\ ~(matches[i].file_b # NoFile)}),
     only_b |-> Cardinality({i \in 1..Len(matches) :
                   matches[i].file_b # NoFile /\ ~(matches[i].file_a # NoFile)})]

InitMatch ==
    /\ job = "match"
    /\ args \in [folder_a : Folders, folder_b : Folders]
    /\ pc = "scan_a"
    /\ loc = [videos_a |-> {}, videos_b |-> {}]
    /\ InitCommon
    /\ result = NoResult

\* videos_a = scan_video_files(folder_a), then the same for folder_b.
ScanVideoFiles(side) ==
    /\ job = "match"
    /\ pc = side
    /\ IF side = "scan_a"
       THEN /\ \E order \in Orders(args.folder_a) :
                  loc' = [loc EXCEPT !.videos_a = ScanFrom(order, 1, {})]
            /\ pc' = "scan_b"
       ELSE /\ \E order \in Orders(args.folder_b) :
                  loc' = [loc EXCEPT !.videos_b = ScanFrom(order, 1, {})]
            /\ pc' = "sort"
    /\ UNCHANGED <<job, args, phase, rr, cancelFlag, proc, file, temps, created,
                   tierLog, probe, result>>

\* The rest of find_matches: one VideoMatch per basename of the union, sorted;
\* an exception of natural_sort_key leaves find_matches.
FindMatchesSort ==
    /\ job = "match"
    /\ pc = "sort"
    /\ LET all_basenames == Keys(loc.videos_a) \cup Keys(loc.videos_b)
       IN IF \E b \in all_basenames : KeyRaises(b)
          THEN /\ pc' = "raised"
               /\ UNCHANGED result
          ELSE /\ \E sorted \in SortedOrders(all_basenames) :
                     result' = [i \in 1..Len(sorted) |->
                                   VideoMatch(sorted[i], loc.videos_a, loc.videos_b)]
               /\ pc' = "matched"
    /\ UNCHANGED <<job, args, phase, rr, cancelFlag, proc, file, temps, created,
                   tierLog, loc, probe>>

\* The caller counts the matches: get_match_counts(matches).
GetMatchCounts ==
    /\ job = "match"
    /\ pc = "matched"
    /\ rr' = MatchCounts(result)
    /\ pc' = "done"
    /\ UNCHANGED <<job, args, phase, cancelFlag, proc, file, temps, created,
                   tierLog, loc, probe, result>>

MatchNext ==
    \/ \E side \in {"scan_a", "scan_b"} : ScanVideoFiles(side)
    \/ FindMatchesSort
    \/ GetMatchCounts

MatchSpec == InitMatch /\ [][MatchNext]_vars

(***************************************************************************)
(* Caption timing of src/ugc_processor.py: ms_to_ass_time as it is called  *)
(* by generate_ass_subtitles for the start and the end of a word.  One     *)
(* behaviour of AssSpec formats the two times of one word.  A time text is *)
(* the sequence of its characters.                                         *)
(***************************************************************************)
\* Times from 0 ms up to this many ms are formatted, besides the values below.
MaxMs == 300

\* Times in ms: spec examples, and values around the minute and the hour.
MsValues ==
    (0..MaxMs) \cup {570, 580, 1130, 1500, 2750, 59990, 59999, 60000, 3599990,
                     3599999, 3600000, 3661010, 36000000}

\* The times up to 1000 ms and of MsValues for which the double
\* (seconds % 1) * 100 lies just below the exact number of centiseconds:
\* 290 / 1000 % 60 % 1 * 100 is 28.999999999999996.
CentisecondProductBelowExact == {290, 570, 580, 1130, 3599990}

\* The words whose times are formatted: start_ms, and end_ms at or after it.
WordTimes ==
    {[start_ms |-> s, end_ms |-> e] :
        s \in MsValues, e \in {1500, 2750, 3600000}}

DecimalChars == <<"0", "1", "2", "3", "4", "5", "6", "7", "8", "9">>

\* str(n) of a non-negative int
RECURSIVE DecimalText(_)
DecimalText(n) ==
    IF n < 10 THEN <<DecimalChars[n + 1]>>
    ELSE Append(DecimalText(n \div 10), DecimalChars[(n % 10) + 1])

\* f"{n:02d}"
TwoDigits(n) == IF n < 10 THEN <<"0">> \o DecimalText(n) ELSE DecimalText(n)

\* hours = int(total_seconds // 3600)
Hours(ms) == ms \div 3600000

\* The minutes not reduced to the hour.
MinutesOfTotal(ms) == ms \div 60000

\* minutes = int((total_seconds % 3600) // 60)
Minutes(ms) == (ms % 3600000) \div 60000

\* seconds = int(total_seconds % 60)
Seconds(ms) == (ms % 60000) \div 1000

\* centiseconds = int((seconds % 1) * 100): int() truncates the double.
Centiseconds(ms) ==
    IF ms \in CentisecondProductBelowExact
    THEN ((ms % 1000) \div 10) - 1
    ELSE (ms % 1000) \div 10

\* ms_to_ass_time: f"{hours}:{minutes:02d}:{seconds:02d}.{centiseconds:02d}"
MsToAssTime(ms) ==
    DecimalText(Hours(ms)) \o <<":">> \o TwoDigits(Minutes(ms)) \o <<":">>
    \o TwoDigits(Seconds(ms)) \o <<".">> \o TwoDigits(Centiseconds(ms))

InitAss ==
    /\ job = "ass"
    /\ args \in WordTimes
    /\ pc = "ass_start"
    /\ loc = [start_time |-> << >>, end_time |-> << >>]
    /\ InitCommon
    /\ result = NoResult

\* start_time = ms_to_ass_time(word.start_ms)
AssStartTime ==
    /\ job = "ass"
    /\ pc = "ass_start"
    /\ loc' = [loc EXCEPT !.start_time = MsToAssTime(args.start_ms)]
    /\ pc' = "ass_end"
    /\ UNCHANGED <<job, args, phase, rr, cancelFlag, proc, file, temps, created,
                   tierLog, probe, result>>

\* end_time = ms_to_ass_time(word.end_ms), then the Dialogue line of the word.
AssDialogue ==
    /\ job = "ass"
    /\ pc = "ass_end"
    /\ loc' = [loc EXCEPT !.end_time = MsToAssTime(args.end_ms)]
    /\ result' = [Start |-> loc.start_time, End |-> MsToAssTime(args.end_ms)]
    /\ pc' = "done"
    /\ UNCHANGED <<job, args, phase, rr, cancelFlag, proc, file, temps, created,
                   tierLog, probe>>

AssNext == AssStartTime \/ AssDialogue

AssSpec == InitAss /\ [][AssNext]_vars

(***************************************************************************)
(* Overlay text wrapping of src/processor.py: one behaviour of WrapSpec is *)
(* one call of _wrap_text.  A text is the sequence of its characters; the  *)
(* font is one whose glyphs, the space included, are all 1 pixel wide.     *)
(***************************************************************************)
\* Texts of up to this many characters are wrapped.
MaxTextLen == 5

\* _measure_text: width = max(1, bbox[2] - bbox[0])
MeasureText(text) == Max(1, Len(text))

\* text.split(): the maximal runs of characters other than the space.
RECURSIVE SplitWords(_, _, _)
SplitWords(text, words, run) ==
    IF text = << >> THEN (IF run = << >> THEN words ELSE Append(words, run))
    ELSE IF Head(text) = " "
         THEN SplitWords(Tail(text), IF run = << >> THEN words ELSE Append(words, run), << >>)
         ELSE SplitWords(Tail(text), words, Append(run, Head(text)))

\* f"{current} {word}".strip()
WithWord(current, word) == IF current = << >> THEN word ELSE current \o <<" ">> \o word

\* The character loop of _wrap_text over the rest of a word: the lines it
\* appends and the chunk it ends with.
RECURSIVE SplitChars(_, _, _, _)
SplitChars(rest, chunk, lines, max_width) ==
    IF rest = << >> THEN [lines |-> lines, chunk |-> chunk]
    ELSE IF MeasureText(Append(chunk, Head(rest))) <= max_width \/ chunk = << >>
         THEN SplitChars(Tail(rest), Append(chunk, Head(rest)), lines, max_width)
         ELSE SplitChars(Tail(rest), <<Head(rest)>>, Append(lines, chunk), max_width)

InitWrap ==
    /\ job = "wrap"
    /\ args \in [text : UNION {[1..n -> {"a", "b", " "}] : n \in 0..MaxTextLen},
                 max_width : 1..3]
    /\ pc = "split"
    /\ loc = [words |-> << >>, lines |-> << >>, current |-> << >>]
    /\ InitCommon
    /\ result = NoResult

\* words = text.split(); if not words: return [text]
WrapSplit ==
    /\ job = "wrap"
    /\ pc = "split"
    /\ LET words == SplitWords(args.text, << >>, << >>)
       IN IF words = << >>
          THEN /\ result' = <<args.text>>
               /\ pc' = "done"
               /\ UNCHANGED loc
          ELSE /\ loc' = [loc EXCEPT !.words = words]
               /\ pc' = "words"
               /\ UNCHANGED result
    /\ UNCHANGED <<job, args, phase, rr, cancelFlag, proc, file, temps, created,
                   tierLog, probe>>

\* One pass of "for word in words".
WrapWord ==
    /\ job = "wrap"
    /\ pc = "words"
    /\ loc.words # << >>
    /\ LET word == Head(loc.words)
           test == WithWord(loc.current, word)
       IN IF MeasureText(test) <= args.max_width \/ loc.current = << >>
          THEN loc' = [loc EXCEPT !.words = Tail(@), !.current = test]
          ELSE IF MeasureText(word) > args.max_width
               THEN LET s == SplitChars(word, << >>, Append(loc.lines, loc.current),
                                        args.max_width)
                    IN loc' = [words |-> Tail(loc.words), lines |-> s.lines,
                               current |-> s.chunk]
               ELSE loc' = [words |-> Tail(loc.words),
                            lines |-> Append(loc.lines, loc.current),
                            current |-> word]
    /\ UNCHANGED <<job, args, pc, phase, rr, cancelFlag, proc, file, temps, created,
                   tierLog, probe, result>>

\* if current: lines.append(current); return lines
WrapReturn ==
    /\ job = "wrap"
    /\ pc = "words"
    /\ loc.words = << >>
    /\ result' = IF loc.current # << >> THEN Append(loc.lines, loc.current) ELSE loc.lines
    /\ pc' = "done"
    /\ UNCHANGED <<job, args, phase, rr, cancelFlag, proc, file, temps, created,
                   tierLog, loc, probe>>

WrapNext == WrapSplit \/ WrapWord \/ WrapReturn

WrapSpec == InitWrap /\ [][WrapNext]_vars

(***************************************************************************)
(* The web jobs of src/webapp: one behaviour of WebSpec is one job made by *)
(* create_job and run once by run_concat_job or run_ugc_job.  result is    *)
(* the job record in the store, loc the locals of the run.  The store      *)
(* itself answers every read and write.                                    *)
(***************************************************************************)
\* A job has up to this many matched pairs or UGC videos.
MaxItems == 3

\* A status update that is dropped.
UpdateJobKeepingStatus(j, updates) ==
    [f \in DOMAIN j |->
        IF f \in DOMAIN updates /\ f # "status" THEN updates[f] ELSE j[f]]

\* update_job: the progress keys are merged into job["progress"], every other
\* key replaces the stored one.
UpdateJob(j, updates) ==
    [f \in DOMAIN j |->
        IF f \notin DOMAIN updates THEN j[f]
        ELSE IF f = "progress"
             THEN [g \in DOMAIN j.progress |->
                      IF g \in DOMAIN updates.progress
                      THEN updates.progress[g] ELSE j.progress[g]]
             ELSE updates[f]]

\* create_job, and the arguments the queued run is called with.
InitWeb ==
    /\ job = "web"
    /\ args \in [type : {"concat", "ugc"}, ffmpeg_ok : BOOLEAN, total : 0..MaxItems,
                 enable_captions : BOOLEAN, has_key : BOOLEAN]
    /\ pc = "web_start"
    /\ loc = [total |-> 0, idx |-> 0, success_count |-> 0, fail_count |-> 0]
    /\ InitCommon
    /\ result = [status |-> "queued", progress |-> [current |-> 0, total |-> 0],
                 summary |-> "none"]

\* check_ffmpeg_available(), then failed / ffmpeg_not_found or
\* set_job_status(job_id, "running").
WebStart ==
    /\ job = "web"
    /\ pc = "web_start"
    /\ IF args.ffmpeg_ok
       THEN /\ result' = UpdateJob(result, [status |-> "running"])
            /\ pc' = "web_stage"
       ELSE /\ result' = UpdateJob(result, [status |-> "failed",
                                            summary |-> "ffmpeg_not_found"])
            /\ pc' = "done"
    /\ UNCHANGED <<job, args, phase, rr, cancelFlag, proc, file, temps, created,
                   tierLog, loc, probe>>

\* Staging and scanning up to the item loop: the inputs are staged and counted
\* (run_concat_job stores the match counts), a job without items is finished,
\* a UGC job with captions and no key fails; any of it may raise.
WebStage ==
    /\ job = "web"
    /\ pc = "web_stage"
    /\ \/ /\ pc' = "web_except"
          /\ UNCHANGED <<loc, result>>
       \/ LET counted == IF args.type = "concat"
                         THEN UpdateJob(result, [summary |-> "counts"]) ELSE result
          IN IF args.total = 0
             THEN /\ result' = UpdateJob(counted,
                                  [status |-> "finished",
                                   progress |-> [current |-> 0, total |-> 0]])
                  /\ pc' = "done"
                  /\ UNCHANGED loc
             ELSE IF args.type = "ugc" /\ args.enable_captions /\ ~args.has_key
             THEN /\ result' = UpdateJob(counted, [status |-> "failed",
                                                   summary |-> "missing_api_key"])
                  /\ pc' = "done"
                  /\ UNCHANGED loc
             ELSE /\ result' = counted
                  /\ loc' = [loc EXCEPT !.total = args.total]
                  /\ pc' = IF args.type = "ugc" THEN "web_assets" ELSE "web_loop"
    /\ UNCHANGED <<job, args, phase, rr, cancelFlag, proc, file, temps, created,
                   tierLog, probe>>

\* run_ugc_job: the three assets are resolved; staging an upload may raise.
WebAssets ==
    /\ job = "web"
    /\ pc = "web_assets"
    /\ pc' \in {"web_loop", "web_except"}
    /\ UNCHANGED <<job, args, phase, rr, cancelFlag, proc, file, temps, created,
                   tierLog, loc, probe, result>>

\* One pass of the item loop: the progress is stored, the item is processed and
\* counted as success or failure; the pass may raise after the progress update.
WebItem ==
    /\ job = "web"
    /\ pc = "web_loop"
    /\ loc.idx < loc.total
    /\ result' = UpdateJob(result, [progress |-> [current |-> loc.idx + 1,
                                                   total |-> loc.total]])
    /\ \/ /\ \E success \in BOOLEAN :
                loc' = [loc EXCEPT !.idx = @ + 1,
                                   !.success_count = IF success THEN @ + 1 ELSE @,
                                   !.fail_count = IF success THEN @ ELSE @ + 1]
          /\ UNCHANGED pc
       \/ /\ loc' = [loc EXCEPT !.idx = @ + 1]
          /\ pc' = "web_except"
    /\ UNCHANGED <<job, args, phase, rr, cancelFlag, proc, file, temps, created,
                   tierLog, probe>>

\* After the loop: the zip files are made and the job is stored as finished
\* with progress total/total; making a zip may raise.
WebFinish ==
    /\ job = "web"
    /\ pc = "web_loop"
    /\ loc.idx = loc.total
    /\ \/ /\ pc' = "web_except"
          /\ UNCHANGED result
       \/ /\ result' = UpdateJob(result,
                          [status |-> "finished",
                           progress |-> [current |-> loc.total, total |-> loc.total],
                           summary |-> "final"])
          /\ pc' = "done"
    /\ UNCHANGED <<job, args, phase, rr, cancelFlag, proc, file, temps, created,
                   tierLog, loc, probe>>

\* except Exception: update_job(job_id, status="failed", summary={"error": ...})
WebExcept ==
    /\ job = "web"
    /\ pc = "web_except"
    /\ result' = UpdateJob(result, [status |-> "failed", summary |-> "error"])
    /\ pc' = "done"
    /\ UNCHANGED <<job, args, phase, rr, cancelFlag, proc, file, temps, created,
                   tierLog, loc, probe>>

WebNext == WebStart \/ WebStage \/ WebAssets \/ WebItem \/ WebFinish \/ WebExcept

WebSpec == InitWeb /\ [][WebNext]_vars

(***************************************************************************)
(* The desktop batch of src/app.py: one behaviour of BatchSpec starts when *)
(* _start_processing (or its overlay-only or UGC counterpart) has made the *)
(* worker, enabled the cancel button and started the worker thread.  The   *)
(* worker's process() and the window's _cancel_processing then run         *)
(* concurrently.  cancelFlag is worker._cancel_requested; loc holds the    *)
(* locals of process(), the signals emitted and the state of the button.   *)
(***************************************************************************)
\* A batch has up to this many items.
MaxBatch == 3

InitBatch ==
    /\ job = "batch"
    /\ args \in [worker : {"process", "process_overlays", "ugc_process"},
                 total : 0..MaxBatch]
    /\ pc = "thread_started"
    /\ loc = [idx |-> 0, success_count |-> 0, fail_count |-> 0, started |-> << >>,
              finished |-> << >>, btn_cancel |-> TRUE, cancel_at |-> -1]
    /\ InitCommon
    /\ result = NoResult

\* The head of process(): the flag is reset; an empty batch emits
\* finished(0, 0, 0) and returns; process and the UGC process make their
\* output directories, which may raise.
BatchProcessBegin ==
    /\ job = "batch"
    /\ pc = "thread_started"
    /\ cancelFlag' = FALSE
    /\ IF args.total = 0
       THEN /\ loc' = [loc EXCEPT !.finished =
                          Append(@, [success |-> 0, failed |-> 0, skipped |-> 0])]
            /\ pc' = "done"
       ELSE /\ \/ pc' = "loop"
               \/ args.worker # "process_overlays" /\ pc' = "raised"
            /\ UNCHANGED loc
    /\ UNCHANGED <<job, args, phase, rr, proc, file, temps, created, tierLog,
                   probe, result>>

\* The top of "for idx, item in enumerate(items, 1)": with the flag set, or
\* after the last item, the loop ends and finished(success, failed, skipped) is
\* emitted; otherwise item idx is started (process makes nested_subdir first,
\* which may raise).
BatchLoop ==
    /\ job = "batch"
    /\ pc = "loop"
    /\ IF cancelFlag \/ loc.idx = args.total
       THEN /\ loc' = [loc EXCEPT !.finished =
                          Append(@, [success |-> loc.success_count,
                                     failed |-> loc.fail_count,
                                     skipped |-> args.total - loc.success_count
                                                 - loc.fail_count])]
            /\ pc' = "done"
       ELSE \/ /\ loc' = [loc EXCEPT !.idx = @ + 1, !.started = Append(@, loc.idx + 1)]
               /\ pc' = "item"
            \/ /\ args.worker = "process"
               /\ pc' = "raised"
               /\ UNCHANGED loc
    /\ UNCHANGED <<job, args, phase, rr, cancelFlag, proc, file, temps, created,
                   tierLog, probe, result>>

\* The item's call returns and is counted; process_video_pair and
\* apply_text_overlay may raise instead.
BatchItemEnd ==
    /\ job = "batch"
    /\ pc = "item"
    /\ \/ /\ \E success \in BOOLEAN :
                loc' = [loc EXCEPT !.success_count = IF success THEN @ + 1 ELSE @,
                                   !.fail_count = IF success THEN @ ELSE @ + 1]
          /\ pc' = "loop"
       \/ /\ args.worker # "ugc_process"
          /\ pc' = "raised"
          /\ UNCHANGED loc
    /\ UNCHANGED <<job, args, phase, rr, cancelFlag, proc, file, temps, created,
                   tierLog, probe, result>>

\* _cancel_processing, the slot of the enabled cancel button: worker.cancel()
\* sets the flag and the button is disabled.
CancelProcessing ==
    /\ job = "batch"
    /\ loc.btn_cancel
    /\ pc \in {"thread_started", "loop", "item"}
    /\ cancelFlag' = TRUE
    /\ loc' = [loc EXCEPT !.btn_cancel = FALSE, !.cancel_at = loc.idx]
    /\ UNCHANGED <<job, args, pc, phase, rr, proc, file, temps, created, tierLog,
                   probe, result>>

BatchNext == BatchProcessBegin \/ BatchLoop \/ BatchItemEnd \/ CancelProcessing

BatchSpec == InitBatch /\ [][BatchNext]_vars

(***************************************************************************)
(* Downloads of src/webapp: one behaviour of ResolveSpec is one request of *)
(* download_output, which calls resolve_output_path.  A path is the        *)
(* sequence of its components below the root; its text is what str() of    *)
(* the resolved path gives.  The file system has no symbolic links.        *)
(***************************************************************************)
\* A rel_path has up to this many components.
MaxDepth == 3

\* The characters of a component.
NameChars(name) ==
    CASE name = "data" -> <<"d", "a", "t", "a">>
      [] name = "jobs" -> <<"j", "o", "b", "s">>
      [] name = "uploads" -> <<"u", "p", "l", "o", "a", "d", "s">>
      [] name = "j1" -> <<"j", "1">>
      [] name = "j2" -> <<"j", "2">>
      [] name = "output" -> <<"o", "u", "t", "p", "u", "t">>
      [] name = "outputs.zip" -> <<"o", "u", "t", "p", "u", "t", "s", ".", "z", "i", "p">>
      [] name = "input" -> <<"i", "n", "p", "u", "t">>
      [] name = "sub" -> <<"s", "u", "b">>
      [] name = "a.mp4" -> <<"a", ".", "m", "p", "4">>

\* str(path) of an absolute path: "/" before every component.
RECURSIVE PathStr(_)
PathStr(path) ==
    IF path = << >> THEN << >>
    ELSE PathStr(SubSeq(path, 1, Len(path) - 1)) \o <<"/">> \o NameChars(path[Len(path)])

\* Path.resolve(): ".." drops the component before it, the root has no parent.
RECURSIVE ResolvePath(_, _)
ResolvePath(path, done) ==
    IF path = << >> THEN done
    ELSE IF Head(path) = ".."
         THEN ResolvePath(Tail(path), SubSeq(done, 1, Len(done) - 1))
         ELSE ResolvePath(Tail(path), Append(done, Head(path)))

\* JOBS_DIR / job_id / "output", resolved
OutputDir(job_id) == <<"data", "jobs", job_id, "output">>

\* The regular files on disk: outputs of the two jobs, their zip files beside
\* the output directories, staged inputs and an upload.
RegularFiles ==
    UNION {{<<"data", "jobs", j, "output", "a.mp4">>,
            <<"data", "jobs", j, "output", "sub", "a.mp4">>,
            <<"data", "jobs", j, "outputs.zip">>,
            <<"data", "jobs", j, "input", "a.mp4">>} : j \in {"j1", "j2"}}
    \cup {<<"data", "uploads", "a.mp4">>}

\* str(target).startswith(str(output_dir))
StartsWith(text, prefix) ==
    Len(prefix) <= Len(text) /\ SubSeq(text, 1, Len(prefix)) = prefix

NoPath == [found |-> FALSE, path |-> << >>]

\* resolve_output_path: joining an absolute rel_path gives rel_path itself.
ResolveOutputPathOf(job_id, rel_path) ==
    LET output_dir == OutputDir(job_id)
        target == ResolvePath(IF rel_path.absolute THEN rel_path.parts
                              ELSE output_dir \o rel_path.parts, << >>)
    IN IF ~StartsWith(PathStr(target), PathStr(output_dir)) THEN NoPath
       ELSE IF target \notin RegularFiles THEN NoPath
       ELSE [found |-> TRUE, path |-> target]

InitResolve ==
    /\ job = "download"
    /\ args \in [job_id : {"j1", "j2"},
                 rel_path :
                    [absolute : {FALSE},
                     parts : UNION {[1..n -> {"..", "a.mp4", "sub", "outputs.zip",
                                              "input", "output", "j2"}] :
                                       n \in 0..MaxDepth}]
                    \cup [absolute : {TRUE}, parts : RegularFiles]]
    /\ pc = "resolve"
    /\ loc = NoPath
    /\ InitCommon
    /\ result = [status |-> 0, path |-> << >>]

\* resolved = resolve_output_path(job_id, file_path)
ResolveOutputPath ==
    /\ job = "download"
    /\ pc = "resolve"
    /\ loc' = ResolveOutputPathOf(args.job_id, args.rel_path)
    /\ pc' = "respond"
    /\ UNCHANGED <<job, args, phase, rr, cancelFlag, proc, file, temps, created,
                   tierLog, probe, result>>

\* download_output: 404 without a resolved path, the file otherwise.
DownloadOutput ==
    /\ job = "download"
    /\ pc = "respond"
    /\ result' = IF loc.found THEN [status |-> 200, path |-> loc.path]
                 ELSE [status |-> 404, path |-> << >>]
    /\ pc' = "done"
    /\ UNCHANGED <<job, args, phase, rr, cancelFlag, proc, file, temps, created,
                   tierLog, loc, probe>>

ResolveNext == ResolveOutputPath \/ DownloadOutput

ResolveSpec == InitResolve /\ [][ResolveNext]_vars

(***************************************************************************)
(* Properties                                                              *)
(***************************************************************************)
IsConcatEntry(e) == e.tier \in ConcatTierSet

\* The concatenation runs of the call, in the order they were started.
ConcatLog == SelectSeq(tierLog, IsConcatEntry)

Rank(tier) == CHOOSE i \in 1..Len(ConcatTiers) : ConcatTiers[i] = tier

\* The three tiers of the specification: fast copy, re-encode with audio,
\* re-encode video only.
TierKind(tier) ==
    CASE tier = "fast_copy" -> 1
      [] tier \in {"reencode_audio", "simple_audio"} -> 2
      [] OTHER -> 3

Failed(e) == e.outcome \in {"fail", "cancelled"}

Ran(tier) == \E i \in 1..Len(tierLog) : tierLog[i].tier = tier

RanAndFailed(tier) ==
    \E i \in 1..Len(tierLog) : tierLog[i].tier = tier /\ Failed(tierLog[i])

ReencodeTiers == ConcatTierSet \ {"fast_copy"}

C2_NoLaunchAfterCancel ==
    job = "pair" =>
        \A i \in 1..Len(tierLog) :
            tierLog[i].outcome = "cancelled" => i = Len(tierLog)

\* C3: when a re-encode run of the pair job was aborted on the cancellation flag
\* (set by the caller while the run was going, never cleared), the result is
\* success=false with error_message "Cancelled by user".
C3_CancelledResult ==
    (/\ job = "pair"
     /\ pc = "done"
     /\ \E i \in 1..Len(tierLog) :
           tierLog[i].tier \in ReencodeTiers /\ tierLog[i].outcome = "cancelled")
    => (~result.success /\ result.error_message = "Cancelled by user")

Expected == probe.dur1 + probe.dur2

HalfOutput ==
    /\ job = "pair"
    /\ probe.verdict \in {"accepted", "rejected"}
    /\ Expected > 0
    /\ 2 * probe.out_dur = Expected

\* C7 (as claimed): for every positive expected duration a fast-copy output of
\* half that duration is rejected.
C7_HalfRejectedAlways == HalfOutput => probe.verdict = "rejected"

\* C7 (amended): for every expected duration above 4000 ms a fast-copy output of
\* half that duration is rejected: fast copy fails, the output is gone when
\* try_fast_copy_concat returns, and the job goes on to the re-encode step.
C7_HalfRejectedAbove4000 ==
    (HalfOutput /\ Expected > 4000)
    => /\ probe.verdict = "rejected"
       /\ RanAndFailed("fast_copy")
       /\ ~loc.used_fast_copy
       /\ (pc = "reencode_audio" \/ Ran("reencode_audio"))
       /\ (pc = "reencode_audio" /\ phase = "call" => file["output_flat"] = "absent")

\* C7 witness: try_fast_copy_concat has just rejected a half-length output.
C7_Witness ==
    /\ HalfOutput
    /\ Expected > 4000
    /\ pc = "reencode_audio"
    /\ phase = "call"

OverlayActive == args.overlay_a_enabled \/ args.overlay_b_enabled

OverlayDoneBefore(step, j) ==
    \E i \in 1..(j - 1) : tierLog[i].tier = step /\ tierLog[i].outcome = "ok"

\* C8: with an enabled overlay on either side fast copy is never run, whatever
\* try_fast_copy is; the overlay pass of each enabled side has completed before
\* the first concatenation run starts; used_fast_copy implies no overlay.
C8_OverlayForcesReencode ==
    job = "pair" =>
        /\ (OverlayActive => pc # "fast_copy" /\ ~Ran("fast_copy"))
        /\ \A j \in 1..Len(tierLog) :
              tierLog[j].tier \in ConcatTierSet =>
                 /\ (args.overlay_a_enabled => OverlayDoneBefore("overlay_a", j))
                 /\ (args.overlay_b_enabled => OverlayDoneBefore("overlay_b", j))
        /\ (loc.used_fast_copy => ~OverlayActive)
        /\ (pc = "done" /\ result.used_fast_copy => ~OverlayActive)

\* C8 witness: fast copy was requested, both overlays were enabled, and the job
\* succeeded by re-encoding.
C8_Witness ==
    /\ job = "pair"
    /\ pc = "done"
    /\ args.try_fast_copy
    /\ args.overlay_a_enabled
    /\ args.overlay_b_enabled
    /\ result.success

\* C9: a pair job that returns success=true has its output at output_flat and
\* the same output at output_nested.
C9_BothDestinations ==
    (job = "pair" /\ pc = "done" /\ result.success)
    => /\ file["output_flat"] = "nonempty"
       /\ file["output_nested"] = file["output_flat"]

\* C10: when process_video_pair or process_ugc_video has returned or raised,
\* every temporary directory and file the call created is gone.
C10_TempsDeleted == pc \in {"done", "raised"} => temps = {}

\* C11: every call of process_video_pair and of process_ugc_video ends by
\* returning one result object: no failure inside the job (tool, probe, file
\* system, transcription) leaves the call as an exception.
C11_AlwaysReturns == pc # "raised"

\* C12: a UGC job that returns success=false leaves no file at output_path, and
\* the with-audio append run counts as succeeded only with a non-empty output.
C12_UgcNoPartialOutput ==
    job = "ugc" =>
        /\ (pc = "done" /\ ~result.success => file["output_path"] = "absent")
        /\ \A i \in 1..Len(tierLog) :
              (tierLog[i].tier = "ugc_append_audio" /\ tierLog[i].outcome = "ok"
               /\ pc = "ugc_cleanup")
              => file["output_path"] = "nonempty"

AppendCancelled ==
    \E i \in 1..Len(tierLog) :
        tierLog[i].tier = "ugc_append_audio" /\ tierLog[i].outcome = "cancelled"

\* C13: a UGC job whose append run observed the cancellation returns
\* success=false with the cancellation message, not the message of a failed
\* end-segment encoding.
C13_UgcCancelMessage ==
    (job = "ugc" /\ pc = "done" /\ AppendCancelled)
    => /\ ~result.success
       /\ result.error_message = "Cancelled by user"
       /\ result.error_message # "Failed to concatenate end sting"

OverlayPassRan ==
    \E i \in 1..Len(tierLog) : tierLog[i].tier = "ugc_overlay"

OverlayPassOk ==
    \E i \in 1..Len(tierLog) :
        tierLog[i].tier = "ugc_overlay" /\ tierLog[i].outcome = "ok"

AppendRan ==
    \E i \in 1..Len(tierLog) :
        tierLog[i].tier \in {"ugc_append_audio", "ugc_append_video"}

HasCaptionLayer ==
    \E i \in 1..Len(loc.cmd.parts) : loc.cmd.parts[i].layer = "captions"

\* C14: a transcription that fails (error status, exception, missing client
\* library, no words) does not fail the UGC job.  The step that took the failure
\* leaves the job in the state the step leaves it in with captions disabled,
\* apart from the note of how the transcription ended; from there the overlay
\* pass is run without a caption layer and step 4 follows as usual.
C14_TranscriptionFailureIgnored ==
    /\ [](job = "ugc" /\ loc.transcription \in TranscriptionFailures
          => /\ loc.words = << >>
             /\ file["ass_file"] = "absent"
             /\ (loc.cmd.built => ~HasCaptionLayer)
             /\ (pc = "done" => OverlayPassRan)
             /\ (pc = "done" /\ OverlayPassOk =>
                    (AppendRan <=> args.clip_end_exists)))
    /\ [][(job = "ugc" /\ pc = "ugc_captions"
           /\ loc'.transcription \in TranscriptionFailures)
          => /\ pc' = "ugc_overlay"
             /\ [loc' EXCEPT !.transcription = "disabled"]
                   = [loc EXCEPT !.transcription = "disabled"]
             /\ UNCHANGED <<file, result, temps, created, tierLog, rr, proc>>]_vars

\* C14 witness: the transcription raised and the job succeeded, end segment
\* appended.
C14_Witness ==
    /\ job = "ugc"
    /\ loc.transcription = "exception"
    /\ pc = "done"
    /\ result.success
    /\ AppendRan

\* C15 (as claimed): the append runs are started exactly if the end-segment
\* asset exists; without it, after a successful overlay pass, output_path holds
\* the intermediate and the result is success=true.
C15_NoEndSegmentCopy ==
    (job = "ugc" /\ OverlayPassOk) =>
        /\ (pc # "ugc_step4" => (AppendRan <=> args.clip_end_exists))
        /\ (~args.clip_end_exists /\ pc = "ugc_cleanup"
               => rr.ok /\ file["output_path"] = file["intermediate_video"])
        /\ (~args.clip_end_exists /\ pc = "done"
               => result.success /\ file["output_path"] # "absent")

\* C15 (amended): the append runs are started exactly if the end-segment asset
\* exists; without it, after a successful overlay pass, the intermediate is
\* copied to output_path and the result is success=true, unless the copy raises:
\* then the result is success=false with the text of the exception.
C15_NoEndSegmentCopyUnlessRaises ==
    (job = "ugc" /\ OverlayPassOk) =>
        /\ (pc # "ugc_step4" => (AppendRan <=> args.clip_end_exists))
        /\ (~args.clip_end_exists /\ pc = "ugc_cleanup"
               => rr.ok /\ file["output_path"] = file["intermediate_video"])
        /\ (~args.clip_end_exists /\ pc = "done"
               => \/ result.success /\ file["output_path"] # "absent"
                  \/ ~result.success /\ result.error_message = "exc")

\* C15 witness: no end-segment asset, the overlay pass succeeded, and the job
\* returned success with the output in place.
C15_Witness ==
    /\ job = "ugc"
    /\ ~args.clip_end_exists
    /\ OverlayPassOk
    /\ pc = "done"
    /\ result.success
    /\ file["output_path"] = "nonempty"
    /\ ~AppendRan

LayerOrder == <<"captions", "add2", "add1">>

\* A layer is part of the overlay pass: the caption track when words are left to
\* show, an overlay when its asset exists.
LayerPresent(layer) ==
    CASE layer = "captions" -> loc.words # << >>
      [] layer = "add2" -> args.add2_exists
      [] layer = "add1" -> args.add1_exists

LayerAsset(layer) == IF layer = "add2" THEN "add2_overlay" ELSE "add1_overlay"

WordsBeforeTrim ==
    LET Before(w) == w.start_ms < Max(0, loc.video_duration_ms - 2800)
    IN SelectSeq(loc.transcript, Before)

\* C17: for a source of probed duration D ms the overlay pass cuts the source to
\* max(0, D - 2800) ms, and the caption track holds exactly the words of the
\* transcript whose start_ms is below that trim point.
C17_TrimAndCaptionWords ==
    job = "ugc" =>
        /\ (loc.cmd.built => loc.cmd.t_ms = Max(0, loc.video_duration_ms - 2800))
        /\ (loc.transcription = "completed" => loc.words = WordsBeforeTrim)

\* C18: a duration probe that returned 0 is taken as "unknown": the fast-copy
\* check rejects no output on an expected sum that holds a failed input probe,
\* and the UGC overlay pass does not cut the source to a segment of length 0
\* when the probe of the source failed.
C18_ZeroIsUnknown ==
    /\ (job = "pair" /\ probe.verdict = "rejected"
           => probe.dur1 > 0 /\ probe.dur2 > 0)
    /\ (job = "ugc" /\ loc.cmd.built /\ loc.video_duration_ms = 0
           => loc.cmd.t_ms # 0)

\* The stems of the video files of a folder, whatever their extension.
VideoStems(folder) ==
    {f.stem : f \in {g \in folder : g.is_file /\ SuffixLower(g.suffix) \in VIDEO_EXTENSIONS}}

MatchReturned == job = "match" /\ pc \in {"matched", "done"}

MatchEnded == job = "match" /\ pc \in {"matched", "done", "raised"}

\* What C19 says of the list find_matches returned and of its counts.
OneMatchPerStem ==
    LET stems_a == VideoStems(args.folder_a)
        stems_b == VideoStems(args.folder_b)
    IN /\ Len(result) = Cardinality(stems_a \cup stems_b)
       /\ {result[i].basename : i \in 1..Len(result)} = stems_a \cup stems_b
       /\ \A i \in 1..Len(result) :
             LET m == result[i]
             IN /\ (m.file_a # NoFile <=> m.basename \in stems_a)
                /\ (m.file_b # NoFile <=> m.basename \in stems_b)
                /\ (m.file_a # NoFile =>
                       m.file_a \in args.folder_a /\ m.file_a.stem = m.basename)
                /\ (m.file_b # NoFile =>
                       m.file_b \in args.folder_b /\ m.file_b.stem = m.basename)
                /\ (Status(m) = "Matched"
                       <=> m.basename \in stems_a \cap stems_b)
                /\ (Status(m) = "Only in A"
                       <=> m.basename \in stems_a \ stems_b)
                /\ (Status(m) = "Only in B"
                       <=> m.basename \in stems_b \ stems_a)
       /\ (pc = "done" => rr.matched + rr.only_a + rr.only_b = Len(result))
       /\ (/\ pc = "done"
           /\ args.folder_a = {Entry(<<"x">>, ".mp4", TRUE)}
           /\ args.folder_b = {Entry(<<"x">>, ".mov", TRUE), Entry(<<"y">>, ".mp4", TRUE)}
           => rr = [matched |-> 1, only_a |-> 0, only_b |-> 1])

\* C19: find_matches emits exactly one VideoMatch per stem of the union of the
\* video stems of the two folders, with file_a present exactly if the stem is in
\* A and file_b exactly if it is in B; each match has exactly one of the three
\* statuses and the counts of get_match_counts add up to the number of matches.
C19_OneMatchPerStem == MatchEnded => (pc # "raised" /\ OneMatchPerStem)

\* What C20 says of the order of the list find_matches returned.
NaturalOrder ==
    \A i \in 1..(Len(result) - 1) :
        ~KeyLess(NaturalSortKey(result[i + 1].basename),
                 NaturalSortKey(result[i].basename))

\* C20: the comparison of natural order is defined for every pair of basenames,
\* and the list find_matches returns is in that order: no match is followed by
\* one that comes before it (clip1, clip2, clip10).
C20_NaturalOrder == MatchEnded => (pc # "raised" /\ NaturalOrder)

\* Every list find_matches can return for the folders of this call: one for
\* each order of enumeration of the two folders and each order of the sort.
PossibleMatchLists ==
    UNION {UNION {{[i \in 1..Len(sorted) |-> VideoMatch(sorted[i], va, vb)] :
                      sorted \in SortedOrders(Keys(va) \cup Keys(vb))} :
                  vb \in {ScanFrom(ob, 1, {}) : ob \in Orders(args.folder_b)}} :
           va \in {ScanFrom(oa, 1, {}) : oa \in Orders(args.folder_a)}}

\* C21: for fixed contents of the two folders find_matches returns the same
\* ordered list on every run: the list it returned is the only one it can
\* return, whatever the order of enumeration of the folders and of the stem set.
C21_Deterministic == MatchReturned => PossibleMatchLists = {result}

\* C22: the cancellation flag is observed in every step that runs the external
\* tool.  A tool that is started while the flag is set (so that the flag is set
\* all the time it runs) is not run to its end inside the step: unless the
\* launch fails, the step enters the poll loop; and a poll that finds the tool
\* running with the flag set terminates it.
C22_CancelPolledInEveryStep ==
    /\ [][(CancelObserved(args.has_cancel_check, cancelFlag)
           /\ Len(tierLog') > Len(tierLog))
          => \/ /\ tierLog'[Len(tierLog')].outcome = "running"
                /\ phase' = "polling"
             \/ proc'.state = "none"]_vars
    /\ [][(CancelObserved(args.has_cancel_check, cancelFlag)
           /\ phase = "polling" /\ proc.state = "running" /\ phase' # "polling")
          => /\ tierLog'[Len(tierLog')].outcome = "cancelled"
             /\ proc'.state \in {"exited", "killed"}]_vars

\* The places of a character in a text.
Places(text, c) == {i \in 1..Len(text) : text[i] = c}

\* The number a text of decimal digits stands for.
RECURSIVE NumberOf(_)
NumberOf(text) ==
    IF text = << >> THEN 0
    ELSE 10 * NumberOf(SubSeq(text, 1, Len(text) - 1))
         + (CHOOSE d \in 0..9 : DecimalChars[d + 1] = text[Len(text)])

\* The fields of a time text H:MM:SS.cc, as texts.
AssFields(text) ==
    LET c1 == CHOOSE i \in Places(text, ":") : \A j \in Places(text, ":") : i <= j
        c2 == CHOOSE i \in Places(text, ":") : \A j \in Places(text, ":") : j <= i
        dot == CHOOSE i \in Places(text, ".") : TRUE
    IN [H |-> SubSeq(text, 1, c1 - 1),
        MM |-> SubSeq(text, c1 + 1, c2 - 1),
        SS |-> SubSeq(text, c2 + 1, dot - 1),
        cc |-> SubSeq(text, dot + 1, Len(text))]

\* A time text read back as ms.
AssTimeToMs(text) ==
    LET f == AssFields(text)
    IN ((NumberOf(f.H) * 60 + NumberOf(f.MM)) * 60 + NumberOf(f.SS)) * 1000
       + NumberOf(f.cc) * 10

\* What C23 says of the text ms_to_ass_time made of ms.
RoundTrips(ms, text) ==
    /\ Cardinality(Places(text, ":")) = 2
    /\ Cardinality(Places(text, ".")) = 1
    /\ \A i \in 1..Len(text) :
          text[i] \in {":", "."} \cup {DecimalChars[d] : d \in 1..10}
    /\ LET f == AssFields(text)
       IN /\ Len(f.H) >= 1
          /\ Len(f.MM) = 2 /\ NumberOf(f.MM) \in 0..59
          /\ Len(f.SS) = 2 /\ NumberOf(f.SS) \in 0..59
          /\ Len(f.cc) = 2 /\ NumberOf(f.cc) \in 0..99
    /\ Abs(AssTimeToMs(text) - ms) <= 10
    /\ (ms = 1500 => text = <<"0", ":", "0", "0", ":", "0", "1", ".", "5", "0">>)
    /\ (ms = 2750 => text = <<"0", ":", "0", "0", ":", "0", "2", ".", "7", "5">>)

\* C23: a time of ms milliseconds formatted by ms_to_ass_time as H:MM:SS.cc and
\* read back differs from ms by at most 10 ms; the minutes and the seconds field
\* are in 00..59 and the centiseconds in 00..99 (1500 gives 0:00:01.50, 2750
\* gives 0:00:02.75).
C23_AssTimeRoundTrip ==
    job = "ass" =>
        /\ (pc \in {"ass_end", "done"} => RoundTrips(args.start_ms, loc.start_time))
        /\ (pc = "done" => /\ RoundTrips(args.end_ms, loc.end_time)
                           /\ result = [Start |-> loc.start_time, End |-> loc.end_time])

\* C23 witness: the word of the example, {start_ms = 1500, end_ms = 2750}, has
\* been formatted.
C23_Witness ==
    /\ job = "ass"
    /\ pc = "done"
    /\ args = [start_ms |-> 1500, end_ms |-> 2750]
    /\ AssTimeToMs(result.Start) = 1500
    /\ AssTimeToMs(result.End) = 2750

\* A formatted time that lost a full 10 ms to the truncation of the double.
C23_WitnessTenMs ==
    /\ job = "ass"
    /\ pc = "done"
    /\ args.start_ms = 3599990
    /\ AssTimeToMs(loc.start_time) = args.start_ms - 10

FastCopyValidated == job = "pair" /\ probe.verdict \in {"accepted", "rejected"}

\* |out - (d1 + d2)| <= max(2000 ms, 5% of (d1 + d2)), the 5% taken exactly.
WithinClaimedTolerance ==
    \/ Abs(probe.out_dur - Expected) <= 2000
    \/ 20 * Abs(probe.out_dur - Expected) <= Expected

\* try_fast_copy_concat has just returned failure and left no output.
FastCopyRejectedAndRemoved ==
    /\ RanAndFailed("fast_copy")
    /\ ~loc.used_fast_copy
    /\ (pc = "reencode_audio" /\ phase = "call" => file["output_flat"] = "absent")

\* C24 (as claimed): after a fast-copy run that exited 0 with a non-empty output,
\* the output is accepted exactly when |out - (d1 + d2)| <= max(2000 ms, 5% of
\* (d1 + d2)); in every other case the output is deleted and fast copy fails.
C24_AcceptedIffWithinTolerance ==
    FastCopyValidated
    => /\ (probe.verdict = "accepted" <=> WithinClaimedTolerance)
       /\ (probe.verdict = "rejected" => FastCopyRejectedAndRemoved)

\* C24 (amended): the output is accepted exactly when its probed duration or the
\* sum of the probed input durations is not positive (a failed probe), or
\* |out - (d1 + d2)| <= max(2000 ms, 5% of (d1 + d2)); in every other case the
\* output is deleted and fast copy fails.
C24_AcceptedIffUnknownOrWithinTolerance ==
    FastCopyValidated
    => /\ (probe.verdict = "accepted"
           <=> (probe.out_dur <= 0 \/ Expected <= 0 \/ WithinClaimedTolerance))
       /\ (probe.verdict = "rejected" => FastCopyRejectedAndRemoved)
       /\ (probe.verdict = "accepted" /\ pc = "finish"
           => loc.used_fast_copy /\ file["output_flat"] = "nonempty")

\* C24 witness: an output 1 ms beyond the 5% share of a 52000 ms sum has just
\* been rejected and removed.
C24_Witness ==
    /\ FastCopyValidated
    /\ Expected = 52000
    /\ probe.out_dur = Expected + (Expected \div 20) + 1
    /\ probe.verdict = "rejected"
    /\ pc = "reencode_audio"
    /\ phase = "call"
    /\ file["output_flat"] = "absent"

\* The runner leaves a poll at which the tool was running and the cancellation
\* was seen.
RunnerCancels ==
    /\ job = "pair"
    /\ pc \in RunnerSteps
    /\ phase = "polling"
    /\ proc.state = "running"
    /\ CancelObserved(args.has_cancel_check, cancelFlag)
    /\ phase' = "returned"

\* C25: a runner that sees the cancellation at a poll terminates the tool, waits
\* up to 5 s, kills it only if it has not exited, removes the output and returns
\* (False, "Cancelled by user"); at that return the tool has exited and nothing
\* is at the output path.
C25_CancelSequence ==
    [][RunnerCancels
       => /\ rr' = [ok |-> FALSE, err |-> "Cancelled by user"]
          /\ tierLog'[Len(tierLog')].outcome = "cancelled"
          /\ file'[Target(pc)] = "absent"
          /\ proc'.state = "exited"]_vars

\* The characters of a list of lines, in order, without the spaces.
RECURSIVE Letters(_)
Letters(lines) ==
    IF lines = << >> THEN << >>
    ELSE SelectSeq(Head(lines), LAMBDA c : c # " ") \o Letters(Tail(lines))

\* Every line fits the box unless it is a single character.
LinesFit(lines, max_width) ==
    \A i \in 1..Len(lines) :
        MeasureText(lines[i]) <= max_width \/ Len(lines[i]) = 1

\* C26: the lines _wrap_text returns for a text with words hold every word in the order of
\* the text, and every line measures at most the box width unless it is a
\* single character: a word wider than the box is split by character wherever
\* it stands, the first or only word included.
C26_WrappedLinesFit ==
    (job = "wrap" /\ pc = "done" /\ loc.words = << >> /\ Letters(<<args.text>>) # << >>)
    => /\ Letters(result) = Letters(<<args.text>>)
       /\ LinesFit(result, args.max_width)

JobTerminal == {"finished", "failed"}

C28_BatchAccounting ==
    /\ [](job = "batch" =>
            /\ loc.started = [i \in 1..loc.idx |-> i]
            /\ Len(loc.finished) <= 1
            /\ (pc \in {"done", "raised"} => Len(loc.finished) = 1)
            /\ \A i \in 1..Len(loc.finished) :
                  LET f == loc.finished[i]
                  IN /\ f.success + f.failed + f.skipped = args.total
                     /\ f.success >= 0 /\ f.failed >= 0 /\ f.skipped >= 0)
    /\ [][job = "batch" /\ pc = "loop" /\ cancelFlag => loc'.started = loc.started]_vars

\* C29: a cancel() made at any time after the cancel button was enabled, the
\* time before the worker thread begins process() included, is never lost: no
\* item is started after the one in progress when the request was made.
C29_CancelNeverLost ==
    (job = "batch" /\ loc.cancel_at >= 0) => Len(loc.started) <= loc.cancel_at

\* A path below a directory, component by component.
InsideDir(path, dir) ==
    Len(path) > Len(dir) /\ SubSeq(path, 1, Len(dir)) = dir

\* C30: for every job id and rel_path (with "..", absolute, or naming something
\* whose name starts like the output directory's) resolve_output_path returns
\* None or an existing regular file inside that job's output directory, and
\* download_output serves nothing else.
C30_ResolvedInsideOutputDir ==
    job = "download" =>
        /\ (pc \in {"respond", "done"} /\ loc.found
            => /\ loc.path \in RegularFiles
               /\ InsideDir(loc.path, OutputDir(args.job_id)))
        /\ (pc = "done" /\ result.status = 200
            => InsideDir(result.path, OutputDir(args.job_id)))

====
